---------------------------- MODULE Spec2Model ----------------------------
(***************************************************************************)
(* Model of visualize_string_frequencies.py: a batch pipeline that loads a *)
(* table of string-frequency observations and writes four reports          *)
(* (heatmap, histograms, rank evolution, text summary).                    *)
(*                                                                         *)
(* Representation.                                                         *)
(*   - A table (DataFrame) is a sequence of rows; a row is a record with   *)
(*     the eight columns of the CSV.                                       *)
(*   - A string key is represented by its position in lexicographic order  *)
(*     (a natural number), so that pandas' sorted group keys are the       *)
(*     numeric order.                                                      *)
(*   - time_sec is kept in hundredths of a second (an integer).            *)
(*   - A non-integer number (a mean, a percentage) is an exact fraction    *)
(*     [num, den] in lowest terms.                                         *)
(***************************************************************************)
EXTENDS Integers, Sequences, FiniteSets

\* ------------------------------------------------------------------ bounds

\* Longest table of the exhaustively enumerated family.
MaxRows == 3

\* Most distinct iterations of a table of the many-iterations family.
MaxT == 25

\* Most distinct strings of a table of the many-strings family.
MaxS == 32

\* Largest N of the top-N selection tried beside the two the program passes.
MaxN == 3

\* --------------------------------------------------------- program constants

HEATMAP_TOP_N == 30
RANK_TOP_N == 15
SUMMARY_TOP == 20
PERSISTENT_TOP == 10
MAX_SNAPSHOTS == 12
MAX_COLS == 4

HEATMAP_FILE == "heatmap_top_strings.png"
HISTOGRAM_FILE == "histogram_frequency_distribution.png"
RANK_FILE == "rank_evolution.png"
SUMMARY_FILE == "summary_stats.txt"

\* The four output files in the order main() produces them.
OutputFiles == <<HEATMAP_FILE, HISTOGRAM_FILE, RANK_FILE, SUMMARY_FILE>>

\* ------------------------------------------------------------- arithmetic

Max(a, b) == IF a >= b THEN a ELSE b

Min(a, b) == IF a <= b THEN a ELSE b

RECURSIVE GCD(_, _)
GCD(a, b) == IF b = 0 THEN a ELSE GCD(b, a % b)

\* The fraction n/d (n >= 0, d > 0) in lowest terms.
Frac(n, d) == LET g == GCD(n, d) IN [num |-> n \div g, den |-> d \div g]

FracLess(x, y) == x.num * y.den < y.num * x.den

\* n/d rounded to the nearest integer, ties to even: what the 'f' format
\* does with the exact value (the values of the model are exact where they tie).
RoundHalfEven(n, d) ==
    LET q == n \div d
        r == n % d
    IN  IF 2 * r < d THEN q
        ELSE IF 2 * r > d THEN q + 1
        ELSE IF q % 2 = 0 THEN q ELSE q + 1

\* f"{time_sec:.1f}": hundredths of a second to tenths.
Fmt1(t) == RoundHalfEven(t, 10)

\* f"{pct:<8.2f}": the fraction p to hundredths (of a percent).
Fmt2(p) == RoundHalfEven(p.num * 100, p.den)

\* -------------------------------------------------------------- the tables

\* A row of the CSV. The four bookkeeping columns are fixed by the other four.
Row(it, s, f, r) ==
    [iteration |-> it, string |-> s, frequency |-> f, rank |-> r,
     unique_strings |-> 10 * it + s, total_extracted |-> 100 * it + f,
     elite_size |-> 5, time_sec |-> 25 * it + 100 * (s - 1)]

SmallIters == {1, 2}
SmallStrs == {1, 2}
SmallFreqs == {0, 1, 3}

\* Rows of the exhaustive family: rank 1 is the most frequent.
SmallRows == {Row(it, s, f, 4 - f) : it \in SmallIters, s \in SmallStrs, f \in SmallFreqs}

SmallTables == UNION {[1..k -> SmallRows] : k \in 0..MaxRows}

\* T rows, one per iteration, ascending (up) or descending in the file.
IterTable(T, up) ==
    [i \in 1..T |-> Row(IF up THEN i ELSE T + 1 - i, 1 + (i % 2), i % 4, 1 + (i % 3))]

\* S strings observed at iteration 2 in file order, frequencies and ranks
\* scattered by the multiplier m, after one row of iteration 1.
StrTable(S, m) ==
    <<Row(1, 1, 4, 1)>> \o
    [s \in 1..S |-> Row(2, s, (s * m) % 5, 1 + ((s * m) % S))]

Mults == {1, 3, 7}

WideTables == {IterTable(T, up) : T \in 0..MaxT, up \in BOOLEAN}
              \cup {StrTable(S, m) : S \in 1..MaxS, m \in Mults}

Tables == SmallTables \cup WideTables

NoFile == [exists |-> FALSE, rows |-> <<>>]

\* ------------------------------------------------------------------ state

VARIABLES
    pc,         \* the step main() is about to take, or how the run ended
    argv,       \* the command line after the program name
    fs,         \* the file at the given path: [exists, rows]
    df,         \* the loaded table
    stdout,     \* the kinds of message printed so far
    exit_code,  \* -1 while running, then the process exit code
    calls,      \* loader and generators invoked so far, in order
    written,    \* output files created so far, in order
    error,      \* the uncaught exception, if any: its kind and the function it left
    heat,       \* what create_heatmap computed
    hist,       \* what create_histogram computed
    rankev,     \* what create_rank_evolution computed
    summ        \* what create_summary_stats wrote

vars == <<pc, argv, fs, df, stdout, exit_code, calls, written, error,
          heat, hist, rankev, summ>>

NoError == [kind |-> "", in |-> ""]

NoHeat == [top_strings |-> <<>>, pivot |-> <<>>, index |-> <<>>, columns |-> <<>>]

NoHist == [iterations |-> <<>>, selected |-> <<>>, n_plots |-> 0, n_cols |-> 0,
           n_rows |-> 0, n_axes |-> 0, drawn |-> <<>>, off |-> {}]

NoRank == [top_strings |-> <<>>, lines |-> <<>>]

NoSumm == [final_iter |-> 0, final_rows |-> 0, total_freq |-> 0, top20 |-> <<>>,
           snapshots |-> 0, persistent |-> {}, persistent_count |-> 0,
           persistent_top |-> <<>>]

Init ==
    /\ pc = "main"
    /\ argv \in {<<>>, <<"log.csv">>}
    /\ fs \in {NoFile} \cup {[exists |-> TRUE, rows |-> t] : t \in Tables}
    /\ df = <<>>
    /\ stdout = <<>>
    /\ exit_code = -1
    /\ calls = <<>>
    /\ written = <<>>
    /\ error = NoError
    /\ heat = NoHeat
    /\ hist = NoHist
    /\ rankev = NoRank
    /\ summ = NoSumm

\* ------------------------------------------------------- pandas operators

Range(f) == {f[i] : i \in DOMAIN f}

\* sorted(values): the elements of a set of integers in ascending order.
RECURSIVE SortSet(_)
SortSet(S) ==
    IF S = {} THEN <<>>
    ELSE LET m == CHOOSE x \in S : \A y \in S : x <= y
         IN  <<m>> \o SortSet(S \ {m})

\* df[column].unique(), as a set.
Strings(t) == {t[i].string : i \in DOMAIN t}

Iterations(t) == {t[i].iteration : i \in DOMAIN t}

\* df[df['string'] == s], df[df['iteration'] == it], df[df['string'].isin(keys)]
RowsOfString(t, s) == SelectSeq(t, LAMBDA r : r.string = s)

RowsOfIteration(t, it) == SelectSeq(t, LAMBDA r : r.iteration = it)

RowsIsin(t, keys) == SelectSeq(t, LAMBDA r : r.string \in keys)

\* column.sum()
RECURSIVE SumFrequency(_)
SumFrequency(t) ==
    IF t = <<>> THEN 0 ELSE t[1].frequency + SumFrequency(Tail(t))

\* column.max() of a non-empty table.
MaxFrequency(t) ==
    LET S == {t[i].frequency : i \in DOMAIN t}
    IN  CHOOSE x \in S : \A y \in S : y <= x

MaxIteration(t) ==
    LET S == Iterations(t)
    IN  CHOOSE x \in S : \A y \in S : y <= x

\* The positions of vals picked by Series.nlargest(n, keep='first') among rem:
\* descending by value, equal values in order of position (a stable sort).
RECURSIVE NLargestPos(_, _, _)
NLargestPos(vals, rem, n) ==
    IF n <= 0 \/ rem = {} THEN <<>>
    ELSE LET i == CHOOSE i \in rem : \A j \in rem :
                      \/ vals[i] > vals[j]
                      \/ (vals[i] = vals[j] /\ i <= j)
         IN  <<i>> \o NLargestPos(vals, rem \ {i}, n - 1)

\* A plausible slip: the first n entries, with no regard to their values.
NLargestHead(vals, n) == [i \in 1..Min(Max(n, 0), Len(vals)) |-> i]

\* Series.nlargest(n): positions of the n largest entries of the sequence vals.
NLargest(vals, n) == NLargestPos(vals, DOMAIN vals, n)

\* df.groupby('string')['frequency'].max().nlargest(top_n).index.tolist():
\* the groups come in sorted key order, each with its maximum frequency.
TopStrings(t, top_n) ==
    LET keys == SortSet(Strings(t))
        maxes == [k \in DOMAIN keys |-> MaxFrequency(RowsOfString(t, keys[k]))]
        pos == NLargest(maxes, top_n)
    IN  [i \in DOMAIN pos |-> keys[pos[i]]]
\* ---------------------------------------------------------- create_heatmap

\* A plausible slip: aggfunc='sum' in place of the default mean.
PivotSum(rows) == Frac(SumFrequency(rows), 1)

\* pivot_table's default aggfunc, 'mean', over the rows of one (string,
\* iteration) pair.
PivotMean(rows) == Frac(SumFrequency(rows), Len(rows))

\* One cell of pivot_table(index='string', columns='iteration',
\* values='frequency', fill_value=0): the aggregate of the pair's rows, and
\* the fill value where the pair has none.
PivotCell(t, s, it) ==
    LET rows == RowsOfIteration(RowsOfString(t, s), it)
    IN  IF rows = <<>> THEN Frac(0, 1) ELSE PivotMean(rows)

PivotTable(t) ==
    [s \in Strings(t) |-> [it \in Iterations(t) |-> PivotCell(t, s, it)]]

\* pivot.max(axis=1) of one row of the matrix.
RowMax(row) ==
    CHOOSE x \in Range(row) : \A y \in Range(row) : ~FracLess(x, y)

\* pivot.max(axis=1).sort_values(ascending=False).index: the row labels by
\* descending row maximum (rows of equal maximum in label order).
RECURSIVE SortRowsDesc(_, _)
SortRowsDesc(pivot, rem) ==
    IF rem = {} THEN <<>>
    ELSE LET s == CHOOSE s \in rem : \A u \in rem :
                      \/ FracLess(RowMax(pivot[u]), RowMax(pivot[s]))
                      \/ (RowMax(pivot[u]) = RowMax(pivot[s]) /\ s <= u)
         IN  <<s>> \o SortRowsDesc(pivot, rem \ {s})

\* The data of create_heatmap(df, output_dir, top_n) up to the rendering.
Heatmap(t, top_n) ==
    LET top_strings == TopStrings(t, top_n)
        df_top == RowsIsin(t, Range(top_strings))
        pivot == PivotTable(df_top)
    IN  [top_strings |-> top_strings,
         pivot |-> pivot,
         index |-> SortRowsDesc(pivot, DOMAIN pivot),
         columns |-> SortSet(Iterations(df_top))]
\* --------------------------------------------------------- create_histogram

\* iterations[::step] for step >= 1.
Slice(seq, step) ==
    [i \in 1..((Len(seq) + step - 1) \div step) |-> seq[(i - 1) * step + 1]]

\* A plausible slip: the last row of the iteration.
StatLast(iter_data, col) ==
    IF Len(iter_data) > 0 THEN iter_data[Len(iter_data)][col] ELSE 0

\* iter_data[col].iloc[0] if len(iter_data) > 0 else 0
Stat(iter_data, col) ==
    IF Len(iter_data) > 0 THEN iter_data[1][col] ELSE 0

\* What one subplot shows beside the bars: the title
\* 'Iter {iteration} ({time_sec:.1f}s)\n{unique_strings} unique strings' and
\* the text box 'Total: {total_extracted}'.
Annotation(t, iteration) ==
    LET iter_data == RowsOfIteration(t, iteration)
    IN  [iteration |-> iteration,
         time |-> Fmt1(Stat(iter_data, "time_sec")),
         unique_strings |-> Stat(iter_data, "unique_strings"),
         total |-> Stat(iter_data, "total_extracted"),
         bars |-> [i \in DOMAIN iter_data |-> iter_data[i].frequency]]

\* A plausible slip: floor in place of ceiling.
GridRowsFloor(n_plots, n_cols) == n_plots \div n_cols

\* n_rows = (n_plots + n_cols - 1) // n_cols
GridRows(n_plots, n_cols) == (n_plots + n_cols - 1) \div n_cols

\* The layout of create_histogram for a non-empty table: the sample, the
\* grid, and the flattened list of axes (a single Axes when n_plots = 1).
Layout(t) ==
    LET iterations == SortSet(Iterations(t))
        step == Max(1, Len(iterations) \div MAX_SNAPSHOTS)
        selected_iterations == Slice(iterations, step)
        n_plots == Len(selected_iterations)
        n_cols == Min(MAX_COLS, n_plots)
        n_rows == GridRows(n_plots, n_cols)
    IN  [iterations |-> iterations,
         selected |-> selected_iterations,
         n_plots |-> n_plots,
         n_cols |-> n_cols,
         n_rows |-> n_rows,
         n_axes |-> IF n_plots = 1 THEN 1 ELSE n_rows * n_cols]

\* The subplots after both loops: axes[idx] for idx, iteration in
\* enumerate(selected_iterations) holds that iteration's histogram, and
\* axes[idx] for idx in range(n_plots, len(axes)) is switched off.
Histogram(t) ==
    LET g == Layout(t)
    IN  [iterations |-> g.iterations, selected |-> g.selected,
         n_plots |-> g.n_plots, n_cols |-> g.n_cols, n_rows |-> g.n_rows,
         n_axes |-> g.n_axes,
         drawn |-> [idx \in 0..(g.n_plots - 1) |-> Annotation(t, g.selected[idx + 1])],
         off |-> g.n_plots..(g.n_axes - 1)]
\* ---------------------------------------------------- create_rank_evolution

\* rows.sort_values('iteration'): ascending, equal iterations in file order.
RECURSIVE SortByIterationPos(_, _)
SortByIterationPos(rows, rem) ==
    IF rem = {} THEN <<>>
    ELSE LET i == CHOOSE i \in rem : \A j \in rem :
                      \/ rows[i].iteration < rows[j].iteration
                      \/ (rows[i].iteration = rows[j].iteration /\ i <= j)
         IN  <<i>> \o SortByIterationPos(rows, rem \ {i})

\* The line plotted for one string: its (iteration, rank) points by iteration.
RankLine(df_top, string) ==
    LET rows == RowsOfString(df_top, string)
        pos == SortByIterationPos(rows, DOMAIN rows)
    IN  [k \in DOMAIN pos |-> <<rows[pos[k]].iteration, rows[pos[k]].rank>>]

\* The data of create_rank_evolution(df, output_dir, top_n): one line per
\* top string, in the order of the selection (which is the colour order).
RankEvolution(t, top_n) ==
    LET top_strings == TopStrings(t, top_n)
        df_top == RowsIsin(t, Range(top_strings))
    IN  [top_strings |-> top_strings,
         lines |-> [idx \in DOMAIN top_strings |->
                       [label |-> top_strings[idx], color |-> idx - 1,
                        points |-> RankLine(df_top, top_strings[idx])]]]

\* ----------------------------------------------------- create_summary_stats

\* Positions picked by nsmallest(n, 'rank'): ascending by rank, equal ranks
\* in order of position.
RECURSIVE NSmallestPos(_, _, _)
NSmallestPos(rows, rem, n) ==
    IF n <= 0 \/ rem = {} THEN <<>>
    ELSE LET i == CHOOSE i \in rem : \A j \in rem :
                      \/ rows[i].rank < rows[j].rank
                      \/ (rows[i].rank = rows[j].rank /\ i <= j)
         IN  <<i>> \o NSmallestPos(rows, rem \ {i}, n - 1)

\* A plausible slip: head(n), the first n rows in file order.
NSmallestHead(rows, n) == SubSeq(rows, 1, Min(Max(n, 0), Len(rows)))

\* rows.nsmallest(n, 'rank')
NSmallest(rows, n) ==
    LET pos == NSmallestPos(rows, DOMAIN rows, n)
    IN  [k \in DOMAIN pos |-> rows[pos[k]]]

\* A plausible slip: the frequency sum of the whole table.
TotalFreqAll(t, final_data) == IF Len(final_data) > 0 THEN SumFrequency(t) ELSE 1

\* total_freq = final_data['frequency'].sum() if len(final_data) > 0 else 1
TotalFreq(t, final_data) ==
    IF Len(final_data) > 0 THEN SumFrequency(final_data) ELSE 1

\* pct = (row['frequency'] / total_freq * 100) if total_freq > 0 else 0
Pct(frequency, total_freq) ==
    IF total_freq > 0 THEN Frac(frequency * 100, total_freq) ELSE Frac(0, 1)

\* One line of the top table: rank, string, frequency as written, and the
\* percentage both as computed (pct) and as written with two decimals
\* (pct_text, in hundredths of a percent).
TopLine(row, total_freq) ==
    LET pct == Pct(row.frequency, total_freq)
    IN  [rank |-> row.rank, string |-> row.string, frequency |-> row.frequency,
         iteration |-> row.iteration, pct |-> pct, pct_text |-> Fmt2(pct)]

\* string_appearances = df.groupby('string')['iteration'].count()
\* max_appearances = df['iteration'].nunique()
\* persistent_strings = string_appearances[string_appearances == max_appearances]
PersistentStrings(t) ==
    LET max_appearances == Cardinality(Iterations(t))
    IN  {s \in Strings(t) : Len(RowsOfString(t, s)) = max_appearances}

\* What create_summary_stats(df, output_dir) writes. An empty table has no
\* final iteration (its maximum is NaN) and no final rows.
SummaryStats(t) ==
    LET final_iter == IF t = <<>> THEN 0 ELSE MaxIteration(t)
        final_data == RowsOfIteration(t, final_iter)
        top20 == NSmallest(final_data, SUMMARY_TOP)
        total_freq == TotalFreq(t, final_data)
        persistent_strings == PersistentStrings(t)
        persistent_final == NSmallest(RowsIsin(final_data, persistent_strings),
                                      PERSISTENT_TOP)
    IN  [final_iter |-> final_iter,
         final_rows |-> Len(final_data),
         total_freq |-> total_freq,
         top20 |-> [k \in DOMAIN top20 |-> TopLine(top20[k], total_freq)],
         snapshots |-> Cardinality(Iterations(t)),
         persistent |-> persistent_strings,
         persistent_count |-> Cardinality(persistent_strings),
         persistent_top |-> IF persistent_strings = {} THEN <<>>
                            ELSE [k \in DOMAIN persistent_final |->
                                     [string |-> persistent_final[k].string,
                                      frequency |-> persistent_final[k].frequency,
                                      rank |-> persistent_final[k].rank]]]
\* ------------------------------------------------------------------- main

\* The loader and the generators in the order main() calls them.
Steps == <<"load_data", "create_heatmap", "create_histogram",
           "create_rank_evolution", "create_summary_stats">>

\* An uncaught exception raised inside function fn: the interpreter prints
\* the trace and the process ends with exit code 1.
Raise(kind, fn) ==
    /\ pc' = "crashed"
    /\ exit_code' = 1
    /\ error' = [kind |-> kind, in |-> fn]
    /\ calls' = Append(calls, fn)

\* len(sys.argv) < 2: usage and example are printed, sys.exit(1).
MainNoArgument ==
    /\ pc = "main"
    /\ Len(argv) < 1
    /\ stdout' = stdout \o <<"usage", "example">>
    /\ exit_code' = 1
    /\ pc' = "exited"
    /\ UNCHANGED <<argv, fs, df, calls, written, error, heat, hist, rankev, summ>>

\* A plausible slip: the message is printed and the run goes on.
MainFileNotFoundGoesOn ==
    /\ pc = "main"
    /\ Len(argv) >= 1
    /\ ~fs.exists
    /\ stdout' = Append(stdout, "error_file_not_found")
    /\ pc' = "load_data"
    /\ UNCHANGED <<argv, fs, df, exit_code, calls, written, error, heat, hist,
                   rankev, summ>>

\* not os.path.exists(csv_file): the error is printed, sys.exit(1).
MainFileNotFound ==
    /\ pc = "main"
    /\ Len(argv) >= 1
    /\ ~fs.exists
    /\ stdout' = Append(stdout, "error_file_not_found")
    /\ exit_code' = 1
    /\ pc' = "exited"
    /\ UNCHANGED <<argv, fs, df, calls, written, error, heat, hist, rankev, summ>>

\* Both checks pass: the output directory is derived and the banner printed.
MainChecksPass ==
    /\ pc = "main"
    /\ Len(argv) >= 1
    /\ fs.exists
    /\ stdout' = Append(stdout, "banner")
    /\ pc' = "load_data"
    /\ UNCHANGED <<argv, fs, df, exit_code, calls, written, error, heat, hist,
                   rankev, summ>>

\* load_data(csv_file): the table is read and its shape reported.
LoadData ==
    /\ pc = "load_data"
    /\ df' = fs.rows
    /\ calls' = Append(calls, "load_data")
    /\ stdout' = stdout \o <<"loading", "loaded_rows", "iterations", "unique_strings">>
    /\ pc' = "create_heatmap"
    /\ UNCHANGED <<argv, fs, exit_code, written, error, heat, hist, rankev, summ>>

\* pd.read_csv raises (the file is no table, or a column is missing).
LoadDataFail ==
    /\ pc = "load_data"
    /\ Raise("Exception", "load_data")
    /\ stdout' = Append(stdout, "loading")
    /\ UNCHANGED <<argv, fs, df, written, heat, hist, rankev, summ>>

\* A plausible slip: the failure is swallowed and the next generator runs.
GeneratorFailIsolated(fn, file) ==
    /\ pc = fn
    /\ error' = [kind |-> "Exception", in |-> fn]
    /\ calls' = Append(calls, fn)
    /\ written' = written
    /\ pc' = IF fn = "create_summary_stats" THEN "finish"
             ELSE Steps[1 + CHOOSE k \in DOMAIN Steps : Steps[k] = fn]
    /\ stdout' = Append(stdout, fn)
    /\ UNCHANGED <<argv, fs, df, exit_code, heat, hist, rankev, summ>>

\* A generator fails in the plotting library or on the file system; the file
\* it was writing may or may not have been created by then.
GeneratorFail(fn, file) ==
    /\ pc = fn
    /\ Raise("Exception", fn)
    /\ \E created \in BOOLEAN :
          written' = IF created THEN Append(written, file) ELSE written
    /\ stdout' = Append(stdout, fn)
    /\ UNCHANGED <<argv, fs, df, heat, hist, rankev, summ>>

\* A generator returns: its file is saved and reported.
GeneratorDone(fn, file, next) ==
    /\ calls' = Append(calls, fn)
    /\ written' = Append(written, file)
    /\ stdout' = stdout \o <<fn, "saved">>
    /\ pc' = next
    /\ UNCHANGED <<argv, fs, df, exit_code, error>>

CreateHeatmap ==
    /\ pc = "create_heatmap"
    /\ heat' = Heatmap(df, HEATMAP_TOP_N)
    /\ GeneratorDone("create_heatmap", HEATMAP_FILE, "create_histogram")
    /\ UNCHANGED <<hist, rankev, summ>>

CreateHeatmapFail == GeneratorFail("create_heatmap", HEATMAP_FILE)

\* An empty table has no iteration: n_cols is 0 and n_rows divides by it.
\* A sampled iteration beyond the last axes would be an IndexError.
CreateHistogram ==
    /\ pc = "create_histogram"
    /\ IF df = <<>>
       THEN /\ Raise("ZeroDivisionError", "create_histogram")
            /\ stdout' = Append(stdout, "create_histogram")
            /\ UNCHANGED <<argv, fs, df, written, heat, hist, rankev, summ>>
       ELSE IF Layout(df).n_plots > Layout(df).n_axes
       THEN /\ Raise("IndexError", "create_histogram")
            /\ stdout' = Append(stdout, "create_histogram")
            /\ UNCHANGED <<argv, fs, df, written, heat, hist, rankev, summ>>
       ELSE /\ hist' = Histogram(df)
            /\ GeneratorDone("create_histogram", HISTOGRAM_FILE, "create_rank_evolution")
            /\ UNCHANGED <<heat, rankev, summ>>

CreateHistogramFail == GeneratorFail("create_histogram", HISTOGRAM_FILE)

CreateRankEvolution ==
    /\ pc = "create_rank_evolution"
    /\ rankev' = RankEvolution(df, RANK_TOP_N)
    /\ GeneratorDone("create_rank_evolution", RANK_FILE, "create_summary_stats")
    /\ UNCHANGED <<heat, hist, summ>>

CreateRankEvolutionFail == GeneratorFail("create_rank_evolution", RANK_FILE)

CreateSummaryStats ==
    /\ pc = "create_summary_stats"
    /\ summ' = SummaryStats(df)
    /\ GeneratorDone("create_summary_stats", SUMMARY_FILE, "finish")
    /\ UNCHANGED <<heat, hist, rankev>>

CreateSummaryStatsFail == GeneratorFail("create_summary_stats", SUMMARY_FILE)

\* main() prints the closing lines and returns: exit code 0.
MainFinish ==
    /\ pc = "finish"
    /\ stdout' = Append(stdout, "complete")
    /\ exit_code' = 0
    /\ pc' = "done"
    /\ UNCHANGED <<argv, fs, df, calls, written, error, heat, hist, rankev, summ>>

Next ==
    \/ MainNoArgument
    \/ MainFileNotFound
    \/ MainChecksPass
    \/ LoadData
    \/ LoadDataFail
    \/ CreateHeatmap
    \/ CreateHeatmapFail
    \/ CreateHistogram
    \/ CreateHistogramFail
    \/ CreateRankEvolution
    \/ CreateRankEvolutionFail
    \/ CreateSummaryStats
    \/ CreateSummaryStatsFail
    \/ MainFinish

Spec == Init /\ [][Next]_vars
\* ------------------------------------------------------ vocabulary of claims

\* Function fn was called and returned.
Returned(fn) == fn \in Range(calls) /\ error.in # fn

Loaded == Returned("load_data")

\* Rows of the loaded table as positions, so that equal rows stay apart.
RowsAt(s, it) == {i \in DOMAIN df : df[i].string = s /\ df[i].iteration = it}

\* f is the largest frequency among the rows of string s.
IsPeak(s, f) ==
    /\ \E i \in DOMAIN df : df[i].string = s /\ df[i].frequency = f
    /\ \A i \in DOMAIN df : df[i].string = s => df[i].frequency <= f

Peak(s) == CHOOSE f \in {df[i].frequency : i \in DOMAIN df} : IsPeak(s, f)

\* sel is a top-N selection of the loaded table.
IsTopN(sel, N) ==
    /\ \A i, j \in DOMAIN sel : sel[i] = sel[j] => i = j
    /\ Range(sel) \subseteq Strings(df)
    /\ Len(sel) = Min(N, Cardinality(Strings(df)))
    /\ \A s \in Range(sel) :
          /\ Cardinality({u \in Strings(df) : Peak(u) > Peak(s)}) < N
          /\ \A u \in Strings(df) \ Range(sel) : Peak(u) <= Peak(s)

\* C3: the top-N selection of create_heatmap (N = 30), of
\* create_rank_evolution (N = 15) and of any small N returns exactly
\* min(N, number of distinct strings) distinct keys, each with a peak
\* frequency at least the Nth-largest peak, so that no unselected string has
\* a strictly larger peak than a selected one.
C3_TopNSelection ==
    /\ Returned("create_heatmap") => IsTopN(heat.top_strings, HEATMAP_TOP_N)
    /\ Returned("create_rank_evolution") => IsTopN(rankev.top_strings, RANK_TOP_N)
    /\ Loaded => \A N \in 0..MaxN : IsTopN(TopStrings(df, N), N)

\* C3's case: the heatmap's selection had to leave strings out, among
\* strings of equal peak.
C3_Witness ==
    /\ Returned("create_heatmap")
    /\ Len(heat.top_strings) = HEATMAP_TOP_N
    /\ \E u \in Strings(df) \ Range(heat.top_strings) :
          \E s \in Range(heat.top_strings) : Peak(u) = Peak(s)

\* C2: with no argument the run ends with exit code 1 after the usage
\* message, with a path that does not exist it ends with exit code 1 after
\* the error message, and in both cases nothing is ever called or written.
C2_EarlyExit ==
    /\ (Len(argv) < 1 \/ ~fs.exists) =>
          /\ pc \in {"main", "exited"}
          /\ calls = <<>>
          /\ written = <<>>
          /\ error = NoError
    /\ pc = "exited" =>
          /\ exit_code = 1
          /\ Len(argv) < 1 => stdout = <<"usage", "example">>
          /\ Len(argv) >= 1 => ~fs.exists /\ stdout = <<"error_file_not_found">>
    /\ (pc = "main" /\ (Len(argv) < 1 \/ ~fs.exists)) => ENABLED Next

\* C2's case: the run has ended on a path that does not exist.
C2_Witness == pc = "exited" /\ Len(argv) >= 1 /\ ~fs.exists /\ exit_code = 1

\* The rows the heatmap keeps: those of the selected strings.
TopRows == {i \in DOMAIN df : df[i].string \in Range(heat.top_strings)}

\* Sum of the frequencies of the rows at the positions in P.
RECURSIVE FrequencyOver(_)
FrequencyOver(P) ==
    IF P = {} THEN 0
    ELSE LET i == CHOOSE i \in P : TRUE
         IN  df[i].frequency + FrequencyOver(P \ {i})

\* The matrix is indexed by the strings and the iterations of the kept rows.
PivotShape ==
    /\ DOMAIN heat.pivot = {df[i].string : i \in TopRows}
    /\ \A s \in DOMAIN heat.pivot :
          DOMAIN heat.pivot[s] = {df[i].iteration : i \in TopRows}

\* The (string, iteration, value) triples of the matrix at the pairs that
\* have a row in the input.
ReadBack ==
    {<<s, it, heat.pivot[s][it]>> :
        <<s, it>> \in {<<df[i].string, df[i].iteration>> : i \in TopRows}}

\* C4 as stated: the matrix holds 0 at every absent pair and the input
\* frequency at every present pair, and reading the present pairs back
\* yields exactly the kept rows, one triple per (string, iteration).
C4_PivotHoldsInputFrequency ==
    Returned("create_heatmap") =>
        /\ PivotShape
        /\ \A s \in DOMAIN heat.pivot : \A it \in DOMAIN heat.pivot[s] :
              /\ RowsAt(s, it) = {} => heat.pivot[s][it] = Frac(0, 1)
              /\ \A i \in RowsAt(s, it) :
                    heat.pivot[s][it] = Frac(df[i].frequency, 1)
        /\ ReadBack = {<<df[i].string, df[i].iteration, Frac(df[i].frequency, 1)>> :
                          i \in TopRows}

\* C4 amended: the matrix holds 0 at every absent pair and, at every present
\* pair, the mean of the frequencies of the pair's rows, which is the input
\* frequency where the pair's rows agree; reading the present pairs back
\* yields one triple per pair of the kept rows, carrying that mean.
C4_PivotHoldsMean ==
    Returned("create_heatmap") =>
        /\ PivotShape
        /\ \A s \in DOMAIN heat.pivot : \A it \in DOMAIN heat.pivot[s] :
              LET cell == heat.pivot[s][it]
                  P == RowsAt(s, it)
              IN  /\ cell = Frac(cell.num, cell.den)
                  /\ P = {} => cell = Frac(0, 1)
                  /\ P # {} => cell.num * Cardinality(P) = cell.den * FrequencyOver(P)
                  /\ (P # {} /\ \A i, j \in P : df[i].frequency = df[j].frequency) =>
                        \A i \in P : cell = Frac(df[i].frequency, 1)
        /\ Cardinality(ReadBack) =
              Cardinality({<<df[i].string, df[i].iteration>> : i \in TopRows})

\* C4's case: a pair with two rows of different frequency, beside an absent
\* pair filled with 0.
C4_Witness ==
    /\ Returned("create_heatmap")
    /\ \E i, j \in TopRows :
          /\ df[i].string = df[j].string
          /\ df[i].iteration = df[j].iteration
          /\ df[i].frequency # df[j].frequency
    /\ \E s \in DOMAIN heat.pivot : \E it \in DOMAIN heat.pivot[s] :
          RowsAt(s, it) = {} /\ heat.pivot[s][it] = Frac(0, 1)

\* C5 as stated: the persistence count is the number of strings that have at
\* least one row in every distinct iteration of the table.
C5_PersistenceCount ==
    Returned("create_summary_stats") =>
        summ.persistent_count =
            Cardinality({s \in Strings(df) :
                            \A it \in Iterations(df) : RowsAt(s, it) # {}})

\* C1 as stated: the sampled iterations are the sorted distinct iterations
\* taken every step = max(1, T // 12) from the first, and there are at least
\* 1 and at most 12 of them.
C1_SampleOfAtMostTwelve ==
    Returned("create_histogram") =>
        LET its == Iterations(df)
            T == Cardinality(its)
            step == IF T \div 12 >= 1 THEN T \div 12 ELSE 1
            n == Len(hist.selected)
        IN  /\ \A k \in 1..n :
                  /\ hist.selected[k] \in its
                  /\ Cardinality({y \in its : y < hist.selected[k]}) = (k - 1) * step
            /\ n * step >= T
            /\ (n - 1) * step < T
            /\ n >= 1
            /\ n <= 12

\* The rows of the final (maximum) iteration, as positions.
FinalRows == {i \in DOMAIN df : \A j \in DOMAIN df : df[j].iteration <= df[i].iteration}

\* Lines of the top table, and final rows, that carry the given values.
LinesLike(r, s, f) ==
    {k \in DOMAIN summ.top20 :
        /\ summ.top20[k].rank = r
        /\ summ.top20[k].string = s
        /\ summ.top20[k].frequency = f}

FinalRowsLike(r, s, f) ==
    {i \in FinalRows : df[i].rank = r /\ df[i].string = s /\ df[i].frequency = f}

\* C6: the top table lists exactly min(20, rows of the final iteration)
\* rows, all of them rows of the final iteration, in non-decreasing order of
\* rank, and no unlisted final row has a strictly smaller rank than a listed
\* one.
C6_TopTable ==
    Returned("create_summary_stats") =>
        LET top == summ.top20
        IN  /\ Len(top) = Min(20, Cardinality(FinalRows))
            /\ \A k \in DOMAIN top :
                  /\ \A j \in DOMAIN df : df[j].iteration <= top[k].iteration
                  /\ Cardinality(LinesLike(top[k].rank, top[k].string, top[k].frequency))
                        <= Cardinality(FinalRowsLike(top[k].rank, top[k].string,
                                                     top[k].frequency))
            /\ \A k \in 1..(Len(top) - 1) : top[k].rank <= top[k + 1].rank
            /\ \A i \in FinalRows : \A k \in DOMAIN top :
                  df[i].rank < top[k].rank =>
                      Cardinality(LinesLike(df[i].rank, df[i].string, df[i].frequency))
                        = Cardinality(FinalRowsLike(df[i].rank, df[i].string,
                                                    df[i].frequency))

\* C6's case: the final iteration has more than 20 rows, out of rank order
\* in the file, and 20 are listed.
C6_Witness ==
    /\ Returned("create_summary_stats")
    /\ Cardinality(FinalRows) > 20
    /\ Len(summ.top20) = 20
    /\ \E i, j \in FinalRows : i < j /\ df[i].rank > df[j].rank

\* Sum of the written percentages (hundredths of a percent) of lines 1..k.
RECURSIVE WrittenPctSum(_)
WrittenPctSum(k) ==
    IF k = 0 THEN 0 ELSE summ.top20[k].pct_text + WrittenPctSum(k - 1)

\* Sum of the computed percentages of lines 1..k, times the whole number d
\* (d a multiple of every denominator).
RECURSIVE PctSumTimes(_, _)
PctSumTimes(k, d) ==
    IF k = 0 THEN 0
    ELSE (summ.top20[k].pct.num * d) \div summ.top20[k].pct.den + PctSumTimes(k - 1, d)

\* Each line's computed percentage is frequency / sum * 100 over the final
\* iteration's frequency sum, and 0 when that sum is 0.
PctIsShare ==
    \A k \in DOMAIN summ.top20 :
        LET line == summ.top20[k]
            total == FrequencyOver(FinalRows)
        IN  /\ total > 0 => line.pct.num * total = line.pct.den * line.frequency * 100
            /\ total = 0 => line.pct = Frac(0, 1)
            /\ line.pct = Frac(line.pct.num, line.pct.den)

AllFinalRowsListed == Len(summ.top20) = Cardinality(FinalRows)

\* C7 as stated, read on the table as written: each listed percentage is
\* frequency / sum * 100 (0 when the sum is 0), the listed percentages sum
\* to at most 100, and to exactly 100 when the sum is positive and every
\* final row is listed.
C7_WrittenPercentagesSum ==
    Returned("create_summary_stats") =>
        /\ PctIsShare
        /\ WrittenPctSum(Len(summ.top20)) <= 10000
        /\ (FrequencyOver(FinalRows) > 0 /\ AllFinalRowsListed) =>
              WrittenPctSum(Len(summ.top20)) = 10000

\* C7 amended: each line's computed percentage is frequency / sum * 100
\* (0 when the sum is 0) and the computed percentages sum to at most 100, to
\* exactly 100 when the sum is positive and every final row is listed; the
\* percentage written is the computed one rounded to two decimals, so the
\* written column is within 0.005 per listed line of that sum.
C7_PercentagesSum ==
    Returned("create_summary_stats") =>
        LET total == FrequencyOver(FinalRows)
            d == IF total > 0 THEN total ELSE 1
            n == Len(summ.top20)
        IN  /\ PctIsShare
            /\ \A k \in 1..n :
                  LET line == summ.top20[k]
                      off == line.pct_text * line.pct.den - 100 * line.pct.num
                  IN  /\ 2 * off <= line.pct.den
                      /\ -2 * off <= line.pct.den
                      /\ (line.pct.num * d) % line.pct.den = 0
            /\ PctSumTimes(n, d) <= 100 * d
            /\ (total > 0 /\ AllFinalRowsListed) => PctSumTimes(n, d) = 100 * d
            /\ 2 * (WrittenPctSum(n) * d - 100 * PctSumTimes(n, d)) <= n * d
            /\ 2 * (100 * PctSumTimes(n, d) - WrittenPctSum(n) * d) <= n * d

\* C7's case: every final row is listed, the sum is positive, and the
\* written percentages do not add up to 100.00.
C7_Witness ==
    /\ Returned("create_summary_stats")
    /\ AllFinalRowsListed
    /\ FrequencyOver(FinalRows) > 0
    /\ WrittenPctSum(Len(summ.top20)) # 10000

IsPrefix(s, t) == Len(s) <= Len(t) /\ \A i \in DOMAIN s : s[i] = t[i]

\* C8: after the checks pass, the steps run in the order load, heatmap,
\* histogram, rank evolution, summary; the files written so far are a prefix
\* of the four outputs in that order; a failure in the loader or in a
\* generator leaves every later step uncalled and the earlier files in
\* place; and exit code 0 is reached only once all four files are written.
C8_SequentialPipeline ==
    /\ IsPrefix(calls, Steps)
    /\ IsPrefix(written, OutputFiles)
    /\ error = NoError =>
          /\ Len(written) = Max(0, Len(calls) - 1)
          /\ pc # "crashed"
          /\ pc \in Range(Steps) => pc = Steps[Len(calls) + 1]
    /\ error # NoError =>
          /\ pc = "crashed"
          /\ exit_code = 1
          /\ calls # <<>>
          /\ calls[Len(calls)] = error.in
          /\ Len(written) \in {Len(calls) - 2, Len(calls) - 1}
          /\ Len(written) >= 0
          /\ ~ENABLED Next
    /\ exit_code = 0 =>
          /\ pc = "done"
          /\ calls = Steps
          /\ written = OutputFiles
          /\ error = NoError
    /\ pc = "done" => exit_code = 0

\* C8's case: the third generator failed after the first two wrote their
\* files, which are still there.
C8_Witness ==
    /\ pc = "crashed"
    /\ error.in = "create_rank_evolution"
    /\ written = <<HEATMAP_FILE, HISTOGRAM_FILE>>

\* The first row of the given iteration in the loaded table.
FirstRowOf(it) ==
    df[CHOOSE i \in DOMAIN df :
          /\ df[i].iteration = it
          /\ \A j \in DOMAIN df : df[j].iteration = it => i <= j]

\* The time t (hundredths of a second) shows as x (tenths) with one decimal.
ShowsAs(t, x) == 10 * x - t <= 5 /\ t - 10 * x <= 5

\* Each subplot shows the bookkeeping of its iteration's first row.
AnnotatedWithStats ==
    \A idx \in DOMAIN hist.drawn :
        LET a == hist.drawn[idx]
            row == FirstRowOf(a.iteration)
        IN  /\ a.iteration = hist.selected[idx + 1]
            /\ a.unique_strings = row.unique_strings
            /\ a.total = row.total_extracted
            /\ ShowsAs(row.time_sec, a.time)

\* C9 as stated: each sampled iteration's histogram is annotated with its
\* unique-string count, total-extracted count, elapsed time and total
\* frequency sum.
C9_AnnotatedWithFrequencySum ==
    Returned("create_histogram") =>
        /\ AnnotatedWithStats
        /\ \A idx \in DOMAIN hist.drawn :
              LET a == hist.drawn[idx]
                  total_frequency ==
                      FrequencyOver({i \in DOMAIN df : df[i].iteration = a.iteration})
              IN  total_frequency \in {a.unique_strings, a.total}

\* C9 amended: each sampled iteration's histogram is annotated with three
\* values, taken from the first row of that iteration: the unique-string
\* count, the elapsed time to one decimal (both in the title) and the
\* total-extracted count (the 'Total:' box); nothing else is annotated, the
\* frequency sum in particular is not.
C9_AnnotatedWithThreeStats ==
    Returned("create_histogram") =>
        /\ AnnotatedWithStats
        /\ \A idx \in DOMAIN hist.drawn :
              /\ DOMAIN hist.drawn[idx] =
                    {"iteration", "time", "unique_strings", "total", "bars"}
              /\ Len(hist.drawn[idx].bars) =
                    Cardinality({i \in DOMAIN df : df[i].iteration = hist.drawn[idx].iteration})

\* C9's case: a sampled iteration with two rows whose bookkeeping differs,
\* and whose frequency sum is none of the values shown.
C9_Witness ==
    /\ Returned("create_histogram")
    /\ \E idx \in DOMAIN hist.drawn :
          LET a == hist.drawn[idx]
              P == {i \in DOMAIN df : df[i].iteration = a.iteration}
          IN  /\ \E i, j \in P : df[i].unique_strings # df[j].unique_strings
              /\ FrequencyOver(P) \notin {a.unique_strings, a.total}

\* C10: for n >= 1 sampled iterations the grid has min(4, n) columns and
\* ceil(n / columns) rows, hence at least n cells and fewer than a row of
\* unused ones; sample idx is drawn in cell idx, exactly the cells from n on
\* are blanked, and no cell outside the grid is accessed.
C10_Grid ==
    /\ error.kind # "IndexError"
    /\ Returned("create_histogram") =>
          LET n == Len(hist.selected)
              cells == hist.n_rows * hist.n_cols
          IN  /\ n >= 1
              /\ hist.n_plots = n
              /\ hist.n_cols = (IF n < 4 THEN n ELSE 4)
              /\ hist.n_rows * hist.n_cols >= n
              /\ (hist.n_rows - 1) * hist.n_cols < n
              /\ cells - n < hist.n_cols
              /\ hist.n_axes = cells
              /\ DOMAIN hist.drawn = 0..(n - 1)
              /\ \A idx \in DOMAIN hist.drawn :
                    hist.drawn[idx].iteration = hist.selected[idx + 1]
              /\ hist.off = {idx \in 0..(cells - 1) : idx >= n}
              /\ DOMAIN hist.drawn \cup hist.off = 0..(cells - 1)
              /\ DOMAIN hist.drawn \cap hist.off = {}

\* C10's case: 23 samples in a 6 by 4 grid, whose last cell is blanked.
C10_Witness ==
    /\ Returned("create_histogram")
    /\ hist.n_plots = 23
    /\ hist.n_rows = 6
    /\ hist.off = {23}
=============================================================================
